---- MODULE Spec2Model ----
(***************************************************************************)
(* Incremental semantic graph engine of embedding-universe.                *)
(*                                                                         *)
(* Two engines share the addWord algorithm:                                *)
(*   "planar"      src/unnamed/part_001  (d3 timer driven, M = 8)          *)
(*   "volumetric"  src/app/page.tsx      (requestAnimationFrame, M = 6)    *)
(*                                                                         *)
(* Units: an embedding component is an integer number of hundredths, so a  *)
(* dot product (cosine similarity) is an integer number of ten-thousandths:*)
(* 0.45 is 4500.  Alpha is quantised to AlphaOne levels (alpha = 1 is      *)
(* AlphaOne, a level below alphaMin is 0).                                 *)
(***************************************************************************)
EXTENDS Integers, Sequences, FiniteSets, Bags, TLC

VARIABLES
  engine,        \* which page component is mounted
  inputText,     \* useState inputText
  nodesRef,      \* nodesRef.current : sequence of WordNode
  linksRef,      \* linksRef.current : sequence of Connection
  simNodes,      \* node array held by simulationRef.current
  simLinks,      \* link array held by the simulation's "link" force
  alpha,         \* simulation.alpha(), quantised
  simRunning,    \* the d3 internal timer is running
  nodes,         \* useState nodes (render state)
  links,         \* useState links (render state)
  loading,       \* useState loading
  error,         \* useState error
  initializing,  \* useState initializing
  pipelineRef,   \* pipelineRef.current is set
  pending,       \* bag of the addWord invocations suspended at an await
  now,           \* Date.now()
  viewState,     \* planar: useState viewState {x, y, scale}
  is3DMode,      \* planar: useState is3DMode
  isDraggingCanvas, \* planar: useState isDraggingCanvas
  camera,        \* volumetric: useState camera {angleX, angleY, zoom}
  autoRotate,    \* volumetric: useState autoRotate
  isDragging,    \* volumetric: useState isDragging
  dragStart,     \* useState dragStart {x, y}
  body,          \* per node object of nodesRef.current, the fields written
                 \* after creation: x, y, z, fx, fy, depth
  alphaTarget,   \* simulation.alphaTarget(), quantised
  lastOp         \* the step of addWord, the clear or the pointer handler
                 \* that ran last, "getEmbedding" for a step inside
                 \* getEmbedding, "other" for any other handler

vars == <<engine, inputText, nodesRef, linksRef, simNodes, simLinks, alpha,
          simRunning, nodes, links, loading, error, initializing,
          pipelineRef, pending, now, viewState, is3DMode, isDraggingCanvas,
          camera, autoRotate, isDragging, dragStart, body, alphaTarget,
          lastOp>>

graphVars == <<nodesRef, linksRef, simNodes, simLinks, alpha, simRunning>>

renderVars == <<nodes, links>>

uiVars == <<loading, error, initializing>>

cameraVars == <<viewState, is3DMode, isDraggingCanvas, camera, autoRotate,
                isDragging, dragStart>>

bodyVars == <<body, alphaTarget>>

----------------------------------------------------------------------------
(* Bounds *)

\* Spec: nodes plus suspended addWord calls when a new call is accepted
MaxNodes == 2

\* addWord calls suspended at the same time
MaxPending == 2

\* last value of Date.now(), counted from 0
MaxClock == 1

\* SpecTopo: nodes of the largest initial graph (above both caps M)
MaxExisting == 9

\* SpecColor: nodes in the graph before the adds that are followed, so
\* that the palette wraps around
MaxColored == 12

\* quantisation levels of alpha
AlphaOne == 1

\* planar: largest scale (hundredths) at which the zoom-in button is pressed
MaxScale == 500

\* volumetric: largest yaw (milliradians) an orbit drag goes to
MaxYaw == 2000

\* volumetric: largest yaw (milliradians) the auto-rotation goes to, where it
\* is bounded
MaxAutoYaw == 4

\* SpecDepth: nodes of the largest initial graph
MaxBodies == 3

\* planar: farthest pan (pixels) from the centred view, per axis
MaxPan == 400

\* SpecAnchor: wheel events handled between two renders
MaxBurst == 2

----------------------------------------------------------------------------
(* Program constants *)

NumColors == 12

TopK == 3

Threshold == 4500

MaxLinksPlanar == 8

MaxLinksVolumetric == 6

Engines == {"planar", "volumetric"}

MaxLinks(e) == IF e = "planar" THEN MaxLinksPlanar ELSE MaxLinksVolumetric

ErrorMessage == "Failed to generate embedding."

(* Camera units: a scale or zoom is an integer number of hundredths, an
   angle an integer number of milliradians, a position a number of pixels. *)
ScaleOne == 100

PlanarScaleMin == 10

PlanarScaleMax == 400

ResetScale == 80

VolumetricZoomMin == 50

VolumetricZoomMax == 300

InitialAngleX == -200

AutoRotateStep == 2

Pi == 3142

HalfPi == 1571

TwoPi == 6283

ContainerWidth == 1000

ContainerHeight == 800

\* alphaTarget(0.3) on the quantised scale: the lowest level above alphaMin
DragAlphaTarget == 1

InitialViewState ==
  [x |-> ContainerWidth \div 2, y |-> ContainerHeight \div 2,
   scale |-> ScaleOne]

ResetViewState ==
  [x |-> ContainerWidth \div 2, y |-> ContainerHeight \div 2,
   scale |-> ResetScale]

\* PROJECT_FL, the focal length in pixels
ProjectFL == 800

\* the offset added to the perspective divisor
ProjectOffset == 1000

\* the double Infinity, above every finite scale in thousandths
Infinity == 1000000000

InitialCamera == [angleX |-> InitialAngleX, angleY |-> 0, zoom |-> ScaleOne]

----------------------------------------------------------------------------
(* Inputs *)

Blank == " "

EmptyText == << >>

Texts == {<<"a">>, <<"A">>, <<"b">>}

TopoTexts == {<<Blank, "z">>}

\* SpecView: the text of the first node, in the other case
ViewTexts == {<<"C">>}

E1 == <<100, 0>>

E2 == <<45, 89>>

E3 == <<-100, 0>>

Embeddings == {E1, E2, E3}

SpecEmbeddings == {E1, E3}

TopoEmbeddings == {E1, E2}

TopoLetters ==
  <<"c", "d", "e", "f", "g", "h", "i", "j", "k", "l", "m", "n", "o", "p">>

\* initial positions <<x, y, z>> drawn by Math.random() in addWord
SpecPositions == {<<0, 0, 0>>}

\* positions <<x, y, z>> the nodes of the volumetric engine have reached
DepthPositions == {<<0, 0, -300>>, <<0, 0, 300>>, <<200, 100, 0>>}

\* SpecProject: positions <<x, y, z>> the simulation has pushed a node to
FarPositions == {<<0, 0, 300>>, <<1500, 0, 0>>}

\* SpecProject: pointer positions of a level orbit drag of a quarter turn
OrbitPositions == {[x |-> 500, y |-> 400], [x |-> 814, y |-> 400]}

\* pointer positions {x, y} of the mouse events, in client pixels
PointerPositions == {[x |-> 500, y |-> 400], [x |-> 900, y |-> 0]}

\* where the wheel is turned
WheelPositions == {[x |-> 500, y |-> 400]}

\* e.deltaY of the wheel events
WheelDeltas == {-100, 100}

\* SpecAnchor: the scales at which wheel events are followed: the lower
\* clamp, the scale after resetView, the initial scale, the upper clamp
AnchorScales == {PlanarScaleMin, ResetScale, ScaleOne, PlanarScaleMax}

\* the deltaY of the wheel events handled between two renders
WheelBursts == UNION {[1..n -> WheelDeltas] : n \in 1..MaxBurst}

----------------------------------------------------------------------------
(* String helpers *)

LowerChar(c) ==
  CASE c = "A" -> "a"
    [] c = "B" -> "b"
    [] c = "C" -> "c"
    [] c = "Z" -> "z"
    [] OTHER -> c

toLowerCase(t) == [i \in 1..Len(t) |-> LowerChar(t[i])]

RECURSIVE trimStart(_)
trimStart(t) ==
  IF t = << >> THEN << >>
  ELSE IF Head(t) = Blank THEN trimStart(Tail(t)) ELSE t

RECURSIVE trimEnd(_)
trimEnd(t) ==
  IF t = << >> THEN << >>
  ELSE IF t[Len(t)] = Blank THEN trimEnd(SubSeq(t, 1, Len(t) - 1)) ELSE t

trim(t) == trimEnd(trimStart(t))

----------------------------------------------------------------------------
(* Similarity kernel and topology builder *)

RECURSIVE DotFrom(_, _, _)
DotFrom(a, b, i) ==
  IF i > Len(a) THEN 0 ELSE a[i] * b[i] + DotFrom(a, b, i + 1)

cosineSimilarity(a, b) == DotFrom(a, b, 1)

Candidates(existing, embedding) ==
  [i \in 1..Len(existing) |->
     [id |-> existing[i].id,
      similarity |-> cosineSimilarity(embedding, existing[i].embedding)]]

compareSimilarityTiesLast(a, b) ==
  IF a.similarity = b.similarity THEN 1 ELSE b.similarity - a.similarity

(* the comparator (a, b) => b.similarity - a.similarity *)
compareSimilarity(a, b) == b.similarity - a.similarity

(* Array.prototype.sort with that comparator: stable, an element stays
   before a later one unless the comparator is positive. *)
RECURSIVE InsertDesc(_, _)
InsertDesc(sorted, c) ==
  IF sorted = << >> THEN <<c>>
  ELSE IF compareSimilarity(Head(sorted), c) <= 0
       THEN <<Head(sorted)>> \o InsertDesc(Tail(sorted), c)
       ELSE <<c>> \o sorted

RECURSIVE SortCandidates(_)
SortCandidates(cands) ==
  IF cands = << >> THEN << >>
  ELSE InsertDesc(SortCandidates(SubSeq(cands, 1, Len(cands) - 1)),
                  cands[Len(cands)])

isTopKOffByOne(index) == index < TopK - 1

isTopK(index) == index < TopK

isStrong(c) == c.similarity > Threshold

KeepCandidateNoCap(c, index, m) == isTopK(index) \/ isStrong(c)

KeepCandidateStrongOnly(c, index, m) == isStrong(c) /\ index < m

KeepCandidateCapOffByOne(c, index, m) ==
  (isTopK(index) \/ isStrong(c)) /\ index < m - 1

KeepCandidate(c, index, m) == (isTopK(index) \/ isStrong(c)) /\ index < m

(* candidates.filter((c, index) => ...), index is 0-based *)
RECURSIVE FilterFrom(_, _, _)
FilterFrom(cands, i, m) ==
  IF i > Len(cands) THEN << >>
  ELSE (IF KeepCandidate(cands[i], i - 1, m) THEN <<cands[i]>> ELSE << >>)
       \o FilterFrom(cands, i + 1, m)

connectionsToMake(existing, embedding, m) ==
  FilterFrom(SortCandidates(Candidates(existing, embedding)), 1, m)

newLinksReversed(conns, newId) ==
  [i \in 1..Len(conns) |->
     [source |-> newId, target |-> conns[i].id,
      similarity |-> conns[i].similarity]]

newLinks(conns, newId) ==
  [i \in 1..Len(conns) |->
     [source |-> conns[i].id, target |-> newId,
      similarity |-> conns[i].similarity]]

newWordNoWrap(text, embedding, existing, clock) ==
  [id |-> clock, text |-> text, embedding |-> embedding,
   color |-> Len(existing)]

newWord(text, embedding, existing, clock) ==
  [id |-> clock, text |-> text, embedding |-> embedding,
   color |-> Len(existing) % NumColors]

hasText(existing, text) ==
  \E i \in 1..Len(existing) :
     toLowerCase(existing[i].text) = toLowerCase(text)

----------------------------------------------------------------------------
(* Camera arithmetic and projection *)

Min(a, b) == IF a < b THEN a ELSE b

Max(a, b) == IF a > b THEN a ELSE b

(* Math.max(lo, Math.min(hi, v)) *)
clamp(lo, hi, v) == Max(lo, Min(hi, v))

(* the zoom factor of a wheel event, in tenths *)
wheelDelta(deltaY) == IF deltaY > 0 THEN 9 ELSE 11

(* v * delta with delta in tenths *)
times(v, tenths) == (v * tenths) \div 10

(* planar handleWheel: the new scale *)
planarScaleAfter(scale, deltaY) ==
  clamp(PlanarScaleMin, PlanarScaleMax, times(scale, wheelDelta(deltaY)))

noRecenter(center, prev, newScale, prevScale) == prev

(* planar handleWheel: center - (center - prev) * (newScale / prevScale) *)
recenter(center, prev, newScale, prevScale) ==
  center - ((center - prev) * newScale) \div prevScale

(* planar handleWheel: the updater given to setViewState, the container
   centre at p *)
wheelUpdater(prev, newScale, p) ==
  [x |-> recenter(p.x, prev.x, newScale, prev.scale),
   y |-> recenter(p.y, prev.y, newScale, prev.scale),
   scale |-> newScale]

(* React applies the queued updaters in order at the next render *)
RECURSIVE applyUpdaters(_, _, _)
applyUpdaters(prev, newScales, p) ==
  IF newScales = << >> THEN prev
  ELSE applyUpdaters(wheelUpdater(prev, Head(newScales), p),
                     Tail(newScales), p)

(* volumetric handleWheel: the new zoom *)
zoomAfter(zoom, deltaY) ==
  clamp(VolumetricZoomMin, VolumetricZoomMax, times(zoom, wheelDelta(deltaY)))

pitchAfterUnclamped(angleX, deltaY) == angleX - deltaY * 5

(* volumetric handleMouseMove: the new pitch, deltaY in pixels *)
pitchAfter(angleX, deltaY) == clamp(-HalfPi, HalfPi, angleX - deltaY * 5)

(* volumetric handleMouseMove: the new yaw, deltaX in pixels *)
yawAfter(angleY, deltaX) == angleY + deltaX * 5

(* Math.sin and Math.cos of an angle in milliradians, in thousandths, by
   Bhaskara's rational approximation on a half turn *)
sinHalfTurn(x) ==
  LET p == (x * (Pi - x)) \div 1000
  IN (16000 * p) \div ((5 * Pi * Pi) \div 1000 - 4 * p)

sin(a) ==
  LET r == a % TwoPi
  IN IF r <= Pi THEN sinHalfTurn(r) ELSE 0 - sinHalfTurn(r - Pi)

cos(a) == sin(a + HalfPi)

rotate3D(x, y, z, angleX, angleY) ==
  LET cosY == cos(angleY)
      sinY == sin(angleY)
      x1 == (x * cosY - z * sinY) \div 1000
      z1 == (z * cosY + x * sinY) \div 1000
      cosX == cos(angleX)
      sinX == sin(angleX)
      y2 == (y * cosX - z1 * sinX) \div 1000
      z2 == (z1 * cosX + y * sinX) \div 1000
  IN [x |-> x1, y |-> y2, z |-> z2]

(* the fields of a node object that are written after its creation; fx and
   fy are << >> for null or undefined and <<v>> for a number, and depth is
   0 while undefined (it is only read as "depth || 0") *)
newBody(p) ==
  [x |-> p[1], y |-> p[2], z |-> p[3], fx |-> << >>, fy |-> << >>,
   depth |-> 0]

(* animate: the depth cached on a node *)
project(b, cam) ==
  [b EXCEPT !.depth = rotate3D(b.x, b.y, b.z, cam.angleX, cam.angleY).z]

(* animate: PROJECT_FL * camera.zoom - rot.z + 1000 *)
perspectiveDivisor(rotZ, zoom) ==
  (ProjectFL * zoom) \div ScaleOne - rotZ + ProjectOffset

(* animate: the scale of a node at depth rotZ, in thousandths; a division
   by zero gives Infinity *)
perspective(rotZ, zoom) ==
  IF perspectiveDivisor(rotZ, zoom) = 0 THEN Infinity
  ELSE (((ProjectFL * zoom) \div ScaleOne) * 1000)
         \div perspectiveDivisor(rotZ, zoom)

(* animate: the scale a frame caches on the node, the camera being cam *)
nodeScale(b, cam) ==
  perspective(rotate3D(b.x, b.y, b.z, cam.angleX, cam.angleY).z, cam.zoom)

compareDepthDescending(a, b) == b.depth - a.depth

(* the comparator of sortedNodes *)
compareDepth(a, b) == a.depth - b.depth

(* Array.prototype.sort is stable: insertion after the last element that
   does not compare greater *)
RECURSIVE insertByDepth(_, _)
insertByDepth(sorted, item) ==
  IF sorted = << >> THEN <<item>>
  ELSE IF compareDepth(sorted[Len(sorted)], item) <= 0
         THEN Append(sorted, item)
         ELSE Append(insertByDepth(SubSeq(sorted, 1, Len(sorted) - 1), item),
                     sorted[Len(sorted)])

RECURSIVE sortByDepth(_)
sortByDepth(items) ==
  IF items = << >> THEN << >>
  ELSE insertByDepth(sortByDepth(SubSeq(items, 1, Len(items) - 1)),
                     items[Len(items)])

----------------------------------------------------------------------------
(* The suspended invocations: an await parks the call, a settled promise
   takes it up again *)

Requests(texts) ==
  [text : texts, pc : {"import", "pipeline", "embed"}, cleared : BOOLEAN]

suspend(reqs, r) == reqs (+) SetToBag({r})

resume(reqs, r) == reqs (-) SetToBag({r})

----------------------------------------------------------------------------
(* Operations *)

(* the interaction state after the mount effects *)
InitInteraction ==
  /\ viewState = InitialViewState
  /\ is3DMode = FALSE
  /\ isDraggingCanvas = FALSE
  /\ camera = InitialCamera
  /\ autoRotate = TRUE
  /\ isDragging = FALSE
  /\ dragStart = [x |-> 0, y |-> 0]
  /\ alphaTarget = 0

Init ==
  /\ engine \in Engines
  /\ inputText = EmptyText
  /\ nodesRef = << >>
  /\ linksRef = << >>
  /\ simNodes = << >>
  /\ simLinks = << >>
  /\ alpha = AlphaOne
  /\ simRunning = (engine = "planar")
  /\ nodes = << >>
  /\ links = << >>
  /\ loading = FALSE
  /\ error = ""
  /\ initializing = FALSE
  /\ pipelineRef = FALSE
  /\ pending = EmptyBag
  /\ now = 0
  /\ InitInteraction
  /\ body = << >>
  /\ lastOp = "init"

(* input onChange *)
setInputText(t) ==
  /\ inputText' = t
  /\ lastOp' = "other"
  /\ UNCHANGED <<engine, graphVars, renderVars, uiVars, pipelineRef,
                 pending, now,
                 cameraVars, bodyVars>>

(* addWord(inputText) up to its first await, or to its early return *)
addWordEmpty ==
  /\ trim(inputText) = << >>
  /\ lastOp' = "other"
  /\ UNCHANGED <<engine, inputText, graphVars, renderVars, uiVars,
                 pipelineRef, pending, now,
                 cameraVars, bodyVars>>

addWordDuplicateAfterReset ==
  /\ trim(inputText) # << >>
  /\ hasText(nodesRef, inputText)
  /\ loading' = TRUE
  /\ error' = ""
  /\ inputText' = EmptyText
  /\ lastOp' = "addDuplicate"
  /\ UNCHANGED <<engine, graphVars, renderVars, initializing, pipelineRef,
                 pending, now,
                 cameraVars, bodyVars>>

addWordDuplicate ==
  /\ trim(inputText) # << >>
  /\ hasText(nodesRef, inputText)
  /\ inputText' = EmptyText
  /\ lastOp' = "addDuplicate"
  /\ UNCHANGED <<engine, graphVars, renderVars, uiVars, pipelineRef,
                 pending, now,
                 cameraVars, bodyVars>>

addWordStart(cap) ==
  /\ trim(inputText) # << >>
  /\ ~hasText(nodesRef, inputText)
  /\ BagCardinality(pending) < MaxPending
  /\ Len(nodesRef) + BagCardinality(pending) < cap
  /\ loading' = TRUE
  /\ error' = ""
  /\ pending' = suspend(pending, [text |-> inputText, pc |-> "import",
                                   cleared |-> FALSE])
  /\ lastOp' = "addStart"
  /\ UNCHANGED <<engine, inputText, graphVars, renderVars, initializing,
                 pipelineRef, now,
                 cameraVars, bodyVars>>

(* getEmbedding: the dynamic import resolved *)
importResolved(r) ==
  /\ BagIn(r, pending)
  /\ r.pc = "import"
  /\ IF pipelineRef
       THEN /\ pending' = suspend(resume(pending, r), [r EXCEPT !.pc = "embed"])
            /\ UNCHANGED initializing
       ELSE /\ pending' = suspend(resume(pending, r),
                                  [r EXCEPT !.pc = "pipeline"])
            /\ initializing' = TRUE
  /\ lastOp' = "getEmbedding"
  /\ UNCHANGED <<engine, inputText, graphVars, renderVars, loading, error,
                 pipelineRef, now,
                 cameraVars, bodyVars>>

(* getEmbedding: pipeline(...) resolved *)
pipelineResolved(r) ==
  /\ BagIn(r, pending)
  /\ r.pc = "pipeline"
  /\ pipelineRef' = TRUE
  /\ initializing' = FALSE
  /\ pending' = suspend(resume(pending, r), [r EXCEPT !.pc = "embed"])
  /\ lastOp' = "getEmbedding"
  /\ UNCHANGED <<engine, inputText, graphVars, renderVars, loading, error,
                 now,
                 cameraVars, bodyVars>>

(* addWord after "await getEmbedding(text)" returned an embedding *)
addWordResolved(r, embedding, p) ==
  /\ BagIn(r, pending)
  /\ r.pc = "embed"
  /\ IF engine = "planar" THEN p[3] = 0 ELSE p[1] = 0 /\ p[2] = 0
  /\ body' = Append(body, newBody(p))
  /\ LET w == newWord(r.text, embedding, nodesRef, now)
         conns == connectionsToMake(nodesRef, embedding, MaxLinks(engine))
         ns == Append(nodesRef, w)
         ls == linksRef \o newLinks(conns, w.id)
     IN /\ nodesRef' = ns
        /\ linksRef' = ls
        /\ simNodes' = ns
        /\ simLinks' = ls
        /\ links' = IF engine = "volumetric" THEN ls ELSE links
  /\ alpha' = AlphaOne
  /\ simRunning' = TRUE
  /\ inputText' = EmptyText
  /\ loading' = FALSE
  /\ pending' = resume(pending, r)
  /\ lastOp' = IF r.cleared THEN "addResolvedAfterClear"
                                     ELSE "addResolved"
  /\ UNCHANGED <<engine, nodes, error, initializing, pipelineRef, now,
                 cameraVars, alphaTarget>>

addWordRejectedNoFinally(r) ==
  /\ BagIn(r, pending)
  /\ error' = ErrorMessage
  /\ pending' = resume(pending, r)
  /\ lastOp' = "addRejected"
  /\ UNCHANGED <<engine, inputText, graphVars, renderVars, loading,
                 initializing, pipelineRef, now,
                 cameraVars, bodyVars>>

(* addWord after any await of getEmbedding rejected: catch, finally *)
addWordRejected(r) ==
  /\ BagIn(r, pending)
  /\ error' = ErrorMessage
  /\ loading' = FALSE
  /\ pending' = resume(pending, r)
  /\ lastOp' = "addRejected"
  /\ UNCHANGED <<engine, inputText, graphVars, renderVars, initializing,
                 pipelineRef, now,
                 cameraVars, bodyVars>>

(* history kept with each suspended addWord: clearAll emptied the
   collections since it was issued *)
RECURSIVE markCleared(_)
markCleared(reqs) ==
  IF reqs = EmptyBag THEN EmptyBag
  ELSE LET r == CHOOSE x \in BagToSet(reqs) : TRUE
       IN suspend(markCleared(resume(reqs, r)), [r EXCEPT !.cleared = TRUE])

(* planar: clearAll, resetView included *)
clearAll ==
  /\ engine = "planar"
  /\ nodesRef' = << >>
  /\ linksRef' = << >>
  /\ simNodes' = << >>
  /\ simLinks' = << >>
  /\ simRunning' = TRUE
  /\ nodes' = << >>
  /\ links' = << >>
  /\ pending' = markCleared(pending)
  /\ viewState' = ResetViewState
  /\ body' = << >>
  /\ lastOp' = "clearAll"
  /\ UNCHANGED <<engine, inputText, alpha, uiVars, pipelineRef, now,
                 is3DMode, isDraggingCanvas, camera, autoRotate, isDragging,
                 dragStart, alphaTarget>>

(* volumetric: the "Clear Universe" button *)
clearUniverse ==
  /\ engine = "volumetric"
  /\ nodes' = << >>
  /\ links' = << >>
  /\ lastOp' = "clearUniverse"
  /\ UNCHANGED <<engine, inputText, graphVars, uiVars, pipelineRef,
                 pending, now,
                 cameraVars, bodyVars>>

(* simulation.tick(): alpha += (alphaTarget - alpha) * alphaDecay with
   alphaTarget = 0, on the quantised scale *)
decay(a) == IF a > 0 THEN a - 1 ELSE 0

(* simulation.tick() with any alphaTarget *)
tickAlpha(a, target) == IF target > 0 /\ a <= target THEN target ELSE decay(a)

(* simulation.tick(): a pinned node of the simulation is put at fx, fy *)
tickBody(b) ==
  [b EXCEPT !.x = IF b.fx # << >> THEN b.fx[1] ELSE @,
            !.y = IF b.fy # << >> THEN b.fy[1] ELSE @]

(* one step of the d3 internal timer: tick, "tick" listeners, stop below
   alphaMin *)
timerStep ==
  /\ simRunning
  /\ alpha' = tickAlpha(alpha, alphaTarget)
  /\ simRunning' = (tickAlpha(alpha, alphaTarget) > 0)
  /\ body' = [i \in DOMAIN body |->
                IF i <= Len(simNodes) THEN tickBody(body[i]) ELSE body[i]]
  /\ IF engine = "planar"
       THEN nodes' = nodesRef /\ links' = linksRef
       ELSE UNCHANGED renderVars
  /\ lastOp' = "other"
  /\ UNCHANGED <<engine, inputText, nodesRef, linksRef, simNodes, simLinks,
                 uiVars, pipelineRef, pending, now, cameraVars, alphaTarget>>

(* volumetric: the init effect runs again after a render in which one of
   autoRotate, camera.angleX, camera.angleY, camera.zoom, isDragging has
   changed: its cleanup stops the simulation, its body makes a new one, with
   no nodes and no links, and stops it *)
initEffect ==
  /\ simNodes' = << >>
  /\ simLinks' = << >>
  /\ alpha' = AlphaOne
  /\ simRunning' = FALSE

initEffectIf(changed) ==
  IF engine = "volumetric" /\ changed
    THEN initEffect
    ELSE UNCHANGED <<simNodes, simLinks, alpha, simRunning>>

(* volumetric: one requestAnimationFrame callback, and the render it
   schedules; the auto-rotation is followed from a yaw of 0 up to the cap *)
animate(cap) ==
  /\ engine = "volumetric"
  /\ (autoRotate /\ ~isDragging) =>
        camera.angleY \in 0..(cap - AutoRotateStep)
  /\ IF autoRotate /\ ~isDragging
       THEN /\ camera' = [camera EXCEPT !.angleY = @ + AutoRotateStep]
            /\ initEffect
       ELSE /\ alpha' = decay(alpha)
            /\ UNCHANGED <<camera, simNodes, simLinks, simRunning>>
  /\ body' = [i \in DOMAIN body |-> project(body[i], camera)]
  /\ nodes' = nodesRef
  /\ lastOp' = "other"
  /\ UNCHANGED <<engine, inputText, nodesRef, linksRef, links, uiVars,
                 pipelineRef, pending, now, viewState, is3DMode,
                 isDraggingCanvas, autoRotate, isDragging, dragStart,
                 alphaTarget>>

(* the wall clock read by Date.now() *)
clockAdvance ==
  /\ now < MaxClock
  /\ now' = now + 1
  /\ lastOp' = "other"
  /\ UNCHANGED <<engine, inputText, graphVars, renderVars, uiVars,
                 pipelineRef, pending,
                 cameraVars, bodyVars>>

(* container onMouseDown, outside buttons and inputs and not stopped by a
   node *)
handleMouseDown(p) ==
  /\ IF engine = "planar"
       THEN /\ isDraggingCanvas' = TRUE
            /\ dragStart' = [x |-> p.x - viewState.x, y |-> p.y - viewState.y]
            /\ UNCHANGED isDragging
       ELSE /\ isDragging' = TRUE
            /\ dragStart' = p
            /\ UNCHANGED isDraggingCanvas
  /\ initEffectIf(~isDragging)
  /\ lastOp' = "other"
  /\ UNCHANGED <<engine, inputText, nodesRef, linksRef, renderVars, uiVars,
                 pipelineRef, pending, now, viewState, is3DMode, camera,
                 autoRotate, bodyVars>>

(* container onMouseMove; a pan goes up to MaxPan from the centre and an
   orbit drag to a yaw of -MaxYaw..MaxYaw *)
handleMouseMove(p) ==
  /\ IF engine = "planar"
       THEN /\ isDraggingCanvas =>
                 /\ p.x - dragStart.x - InitialViewState.x \in -MaxPan..MaxPan
                 /\ p.y - dragStart.y - InitialViewState.y \in -MaxPan..MaxPan
            /\ viewState' = IF isDraggingCanvas
                              THEN [viewState EXCEPT !.x = p.x - dragStart.x,
                                                     !.y = p.y - dragStart.y]
                              ELSE viewState
            /\ UNCHANGED <<camera, dragStart>>
       ELSE /\ isDragging =>
                 yawAfter(camera.angleY, p.x - dragStart.x) \in -MaxYaw..MaxYaw
            /\ camera' = IF isDragging
                           THEN [camera EXCEPT
                                   !.angleY = yawAfter(@, p.x - dragStart.x),
                                   !.angleX = pitchAfter(@, p.y - dragStart.y)]
                           ELSE camera
            /\ dragStart' = IF isDragging THEN p ELSE dragStart
            /\ UNCHANGED viewState
  /\ initEffectIf(camera' # camera)
  /\ lastOp' = "other"
  /\ UNCHANGED <<engine, inputText, nodesRef, linksRef, renderVars, uiVars,
                 pipelineRef, pending, now, is3DMode, isDraggingCanvas,
                 autoRotate, isDragging, bodyVars>>

(* container onMouseUp *)
onMouseUp ==
  /\ isDraggingCanvas' = (engine = "volumetric" /\ isDraggingCanvas)
  /\ isDragging' = (engine = "planar" /\ isDragging)
  /\ initEffectIf(isDragging)
  /\ lastOp' = "mouseUp"
  /\ UNCHANGED <<engine, inputText, nodesRef, linksRef, renderVars, uiVars,
                 pipelineRef, pending, now, viewState, is3DMode, camera,
                 autoRotate, dragStart, bodyVars>>

(* container onMouseLeave *)
onMouseLeave ==
  /\ isDraggingCanvas' = (engine = "volumetric" /\ isDraggingCanvas)
  /\ isDragging' = (engine = "planar" /\ isDragging)
  /\ initEffectIf(isDragging)
  /\ lastOp' = "mouseLeave"
  /\ UNCHANGED <<engine, inputText, nodesRef, linksRef, renderVars, uiVars,
                 pipelineRef, pending, now, viewState, is3DMode, camera,
                 autoRotate, dragStart, bodyVars>>

(* container onWheel, the pointer at p *)
handleWheel(deltaY, p) ==
  /\ IF engine = "planar"
       THEN /\ viewState' =
                 wheelUpdater(viewState,
                              planarScaleAfter(viewState.scale, deltaY), p)
            /\ UNCHANGED camera
       ELSE /\ camera' = [camera EXCEPT !.zoom = zoomAfter(@, deltaY)]
            /\ UNCHANGED viewState
  /\ initEffectIf(camera' # camera)
  /\ lastOp' = "other"
  /\ UNCHANGED <<engine, inputText, nodesRef, linksRef, renderVars, uiVars,
                 pipelineRef, pending, now, is3DMode, isDraggingCanvas,
                 autoRotate, isDragging, dragStart, bodyVars>>

(* planar: the wheel events of deltas, handled by the handleWheel of one
   render: each computes newScale from the viewState.scale of that render,
   and the updaters run in order at the next render; the container centre
   at p *)
handleWheelBurst(deltas, p) ==
  /\ engine = "planar"
  /\ viewState' =
       applyUpdaters(viewState,
                     [i \in 1..Len(deltas) |->
                        planarScaleAfter(viewState.scale, deltas[i])], p)
  /\ lastOp' = "wheel"
  /\ UNCHANGED <<engine, inputText, graphVars, renderVars, uiVars,
                 pipelineRef, pending, now, is3DMode, isDraggingCanvas,
                 camera, autoRotate, isDragging, dragStart, bodyVars>>

(* planar: the zoom-in button, pressed up to a scale of MaxScale *)
zoomIn ==
  /\ engine = "planar"
  /\ viewState.scale <= MaxScale
  /\ viewState' = [viewState EXCEPT !.scale = times(@, 12)]
  /\ lastOp' = "other"
  /\ UNCHANGED <<engine, inputText, graphVars, renderVars, uiVars,
                 pipelineRef, pending, now, is3DMode, isDraggingCanvas,
                 camera, autoRotate, isDragging, dragStart, bodyVars>>

(* planar: the reset-view button *)
resetView ==
  /\ engine = "planar"
  /\ viewState' = ResetViewState
  /\ lastOp' = "other"
  /\ UNCHANGED <<engine, inputText, graphVars, renderVars, uiVars,
                 pipelineRef, pending, now, is3DMode, isDraggingCanvas,
                 camera, autoRotate, isDragging, dragStart, bodyVars>>

(* planar: the "Toggle 3D Mode" button *)
toggle3DMode ==
  /\ engine = "planar"
  /\ is3DMode' = ~is3DMode
  /\ lastOp' = "toggle3DMode"
  /\ UNCHANGED <<engine, inputText, graphVars, renderVars, uiVars,
                 pipelineRef, pending, now, viewState, isDraggingCanvas,
                 camera, autoRotate, isDragging, dragStart, bodyVars>>

(* volumetric: the rotate button *)
toggleAutoRotate ==
  /\ engine = "volumetric"
  /\ autoRotate' = ~autoRotate
  /\ initEffectIf(TRUE)
  /\ lastOp' = "other"
  /\ UNCHANGED <<engine, inputText, nodesRef, linksRef, renderVars, uiVars,
                 pipelineRef, pending, now, viewState, is3DMode,
                 isDraggingCanvas, camera, isDragging, dragStart, bodyVars>>

(* volumetric: onMouseEnter (over = TRUE) and onMouseLeave of a drawn node *)
nodeHover(over) ==
  /\ engine = "volumetric"
  /\ nodes # << >>
  /\ autoRotate' = ~over
  /\ initEffectIf(autoRotate' # autoRotate)
  /\ lastOp' = "other"
  /\ UNCHANGED <<engine, inputText, nodesRef, linksRef, renderVars, uiVars,
                 pipelineRef, pending, now, viewState, is3DMode,
                 isDraggingCanvas, camera, isDragging, dragStart, bodyVars>>

(* planar: onMouseDown of the drawn node i *)
onNodeDragStart(i) ==
  /\ engine = "planar"
  /\ i \in 1..Len(nodes)
  /\ alphaTarget' = DragAlphaTarget
  /\ simRunning' = TRUE
  /\ body' = [body EXCEPT ![i].fx = <<body[i].x>>, ![i].fy = <<body[i].y>>]
  /\ lastOp' = "nodeDragStart"
  /\ UNCHANGED <<engine, inputText, nodesRef, linksRef, simNodes, simLinks,
                 alpha, renderVars, uiVars, pipelineRef, pending, now,
                 cameraVars>>

(* planar: onMouseMove of the drawn node i while it is pinned, the pointer
   at p *)
onNodeDrag(i, p) ==
  /\ engine = "planar"
  /\ i \in 1..Len(nodes)
  /\ body[i].fx # << >>
  /\ body' = IF isDraggingCanvas THEN body
             ELSE [body EXCEPT
                     ![i].fx = <<((p.x - viewState.x) * ScaleOne)
                                    \div viewState.scale>>,
                     ![i].fy = <<((p.y - viewState.y) * ScaleOne)
                                    \div viewState.scale>>]
  /\ lastOp' = "other"
  /\ UNCHANGED <<engine, inputText, graphVars, renderVars, uiVars,
                 pipelineRef, pending, now, cameraVars, alphaTarget>>

(* planar: onMouseUp of the drawn node i *)
onNodeDragEnd(i) ==
  /\ engine = "planar"
  /\ i \in 1..Len(nodes)
  /\ alphaTarget' = 0
  /\ body' = [body EXCEPT ![i].fx = << >>, ![i].fy = << >>]
  /\ lastOp' = "nodeDragEnd"
  /\ UNCHANGED <<engine, inputText, graphVars, renderVars, uiVars,
                 pipelineRef, pending, now, cameraVars>>

(* the drawn node objects: the entries of the render state with the depth
   cached on them *)
drawnNodes ==
  [i \in 1..Len(nodes) |-> [node |-> nodes[i], depth |-> body[i].depth]]

(* volumetric: sortedNodes = [...nodes].sort(by depth) *)
sortedNodes == sortByDepth(drawnNodes)

(* nodes.find(n => n.id === id): the index of the first match, 0 for
   undefined *)
findNode(id) ==
  IF \E i \in 1..Len(nodes) : nodes[i].id = id
    THEN CHOOSE i \in 1..Len(nodes) :
           nodes[i].id = id /\ \A j \in 1..(i - 1) : nodes[j].id # id
    ELSE 0

(* volumetric: visibleLinks = links.map(...).filter(...), each edge with the
   indices of its resolved endpoints *)
visibleLinks ==
  SelectSeq([k \in 1..Len(links) |->
               [link |-> links[k],
                source |-> findNode(links[k].source),
                target |-> findNode(links[k].target)]],
            LAMBDA l : l.source # 0 /\ l.target # 0)

Next ==
  \/ \E t \in Texts : setInputText(t)
  \/ addWordEmpty
  \/ addWordDuplicate
  \/ addWordStart(MaxNodes)
  \/ \E r \in Requests(Texts) : importResolved(r)
  \/ \E r \in Requests(Texts) : pipelineResolved(r)
  \/ \E r \in Requests(Texts), e \in SpecEmbeddings, p \in SpecPositions :
        addWordResolved(r, e, p)
  \/ \E r \in Requests(Texts) : addWordRejected(r)
  \/ clearAll
  \/ clearUniverse
  \/ timerStep
  \/ animate(MaxAutoYaw)
  \/ toggleAutoRotate
  \/ clockAdvance

Spec == Init /\ [][Next]_vars

----------------------------------------------------------------------------
(* The topology builder against graphs of up to MaxExisting nodes: the     *)
(* initial states are the graphs that MaxExisting or fewer completed       *)
(* addWord calls leave behind, one per millisecond, after the simulation   *)
(* has settled.                                                            *)

RECURSIVE GraphAfter(_, _)
GraphAfter(embs, m) ==
  IF embs = << >> THEN [nodes |-> << >>, links |-> << >>]
  ELSE LET n == Len(embs)
           g == GraphAfter(SubSeq(embs, 1, n - 1), m)
           w == newWord(<<TopoLetters[n]>>, embs[n], g.nodes, n)
           conns == connectionsToMake(g.nodes, embs[n], m)
       IN [nodes |-> Append(g.nodes, w),
           links |-> g.links \o newLinks(conns, w.id)]

InitTopo ==
  /\ engine \in Engines
  /\ \E n \in 0..MaxExisting :
       \E embs \in [1..n -> TopoEmbeddings] :
          LET g == GraphAfter(embs, MaxLinks(engine))
          IN /\ nodesRef = g.nodes
             /\ linksRef = g.links
             /\ simNodes = g.nodes
             /\ simLinks = g.links
             /\ nodes = g.nodes
             /\ links = g.links
             /\ body = [i \in 1..n |-> newBody(<<0, 0, 0>>)]
             /\ now = n + 1
             /\ pipelineRef = (n > 0)
  /\ inputText = EmptyText
  /\ alpha = 0
  /\ simRunning = FALSE
  /\ loading = FALSE
  /\ error = ""
  /\ initializing = FALSE
  /\ pending = EmptyBag
  /\ InitInteraction
  /\ lastOp = "init"

NextTopo ==
  \/ \E t \in TopoTexts : setInputText(t)
  \/ addWordDuplicate
  \/ addWordStart(MaxExisting + 1)
  \/ \E r \in Requests(TopoTexts) : importResolved(r)
  \/ \E r \in Requests(TopoTexts) : pipelineResolved(r)
  \/ \E r \in Requests(TopoTexts), e \in Embeddings, p \in SpecPositions :
        addWordResolved(r, e, p)
  \/ \E r \in Requests(TopoTexts) : addWordRejected(r)

SpecTopo == InitTopo /\ [][NextTopo]_vars

----------------------------------------------------------------------------
(* The camera: zoom, orbit and the buttons, on a settled graph of two
   similar nodes "c" and "d", and addWord with the text "C".  The planar pan
   is followed in SpecDrag, without the wheel. *)

InitView ==
  /\ engine \in Engines
  /\ LET g == GraphAfter(<<E1, E1>>, MaxLinks(engine))
     IN /\ nodesRef = g.nodes
        /\ linksRef = g.links
        /\ simNodes = g.nodes
        /\ simLinks = g.links
        /\ nodes = g.nodes
        /\ links = g.links
  /\ body = [i \in 1..2 |-> newBody(<<0, 0, 0>>)]
  /\ now = 3
  /\ pipelineRef = TRUE
  /\ inputText = EmptyText
  /\ alpha = 0
  /\ simRunning = FALSE
  /\ loading = FALSE
  /\ error = ""
  /\ initializing = FALSE
  /\ pending = EmptyBag
  /\ InitInteraction
  /\ lastOp = "init"

NextView ==
  \/ \E t \in ViewTexts : setInputText(t)
  \/ addWordDuplicate
  \/ \E d \in WheelDeltas, p \in WheelPositions : handleWheel(d, p)
  \/ zoomIn
  \/ resetView
  \/ toggle3DMode
  \/ clearAll
  \/ clearUniverse
  \/ \E p \in PointerPositions : engine = "volumetric" /\ handleMouseDown(p)
  \/ \E p \in PointerPositions : handleMouseMove(p)
  \/ onMouseUp
  \/ onMouseLeave
  \/ toggleAutoRotate
  \/ \E over \in BOOLEAN : nodeHover(over)
  \/ animate(MaxAutoYaw)
  \/ timerStep

SpecView == InitView /\ [][NextView]_vars

----------------------------------------------------------------------------
(* The painter's order of the volumetric engine: graphs of up to MaxBodies
   similar nodes that have reached any of DepthPositions, before their
   first frame, under orbit drags and auto-rotation *)

InitDepth ==
  /\ engine = "volumetric"
  /\ \E n \in 1..MaxBodies :
       \E ps \in [1..n -> DepthPositions] :
          LET g == GraphAfter([i \in 1..n |-> E1], MaxLinks(engine))
          IN /\ nodesRef = g.nodes
             /\ linksRef = g.links
             /\ simNodes = g.nodes
             /\ simLinks = g.links
             /\ links = g.links
             /\ body = [i \in 1..n |-> newBody(ps[i])]
             /\ now = n + 1
  /\ nodes = << >>
  /\ pipelineRef = TRUE
  /\ inputText = EmptyText
  /\ alpha = 0
  /\ simRunning = FALSE
  /\ loading = FALSE
  /\ error = ""
  /\ initializing = FALSE
  /\ pending = EmptyBag
  /\ InitInteraction
  /\ lastOp = "init"

NextDepth ==
  \/ \E p \in PointerPositions : handleMouseDown(p)
  \/ \E p \in PointerPositions : handleMouseMove(p)
  \/ onMouseUp
  \/ toggleAutoRotate
  \/ animate(MaxAutoYaw)
  \/ clearUniverse

SpecDepth == InitDepth /\ [][NextDepth]_vars

----------------------------------------------------------------------------
(* Dragging nodes and panning in the planar engine, on a settled graph of
   two similar nodes *)

InitDrag ==
  /\ engine = "planar"
  /\ LET g == GraphAfter(<<E1, E1>>, MaxLinks(engine))
     IN /\ nodesRef = g.nodes
        /\ linksRef = g.links
        /\ simNodes = g.nodes
        /\ simLinks = g.links
        /\ nodes = g.nodes
        /\ links = g.links
  /\ body = [i \in 1..2 |-> newBody(<<0, 0, 0>>)]
  /\ now = 3
  /\ pipelineRef = TRUE
  /\ inputText = EmptyText
  /\ alpha = 0
  /\ simRunning = FALSE
  /\ loading = FALSE
  /\ error = ""
  /\ initializing = FALSE
  /\ pending = EmptyBag
  /\ InitInteraction
  /\ lastOp = "init"

NextDrag ==
  \/ \E i \in 1..2 : onNodeDragStart(i)
  \/ \E i \in 1..2, p \in PointerPositions : onNodeDrag(i, p)
  \/ \E i \in 1..2 : onNodeDragEnd(i)
  \/ \E p \in PointerPositions : handleMouseDown(p)
  \/ \E p \in PointerPositions : handleMouseMove(p)
  \/ onMouseUp
  \/ onMouseLeave
  \/ timerStep

SpecDrag == InitDrag /\ [][NextDrag]_vars

(* The topology builder alone: one addWord at a time on a graph of up to
   MaxExisting nodes, and none once the node count has caught up with the
   clock, so that every id is fresh. *)
NextRank ==
  \/ \E t \in TopoTexts : setInputText(t)
  \/ addWordStart(now)
  \/ \E r \in Requests(TopoTexts) : importResolved(r)
  \/ \E r \in Requests(TopoTexts) : pipelineResolved(r)
  \/ \E r \in Requests(TopoTexts), e \in Embeddings, p \in SpecPositions :
        addWordResolved(r, e, p)

SpecRank == InitTopo /\ [][NextRank]_vars

(* The palette: graphs of up to MaxColored equal nodes, overlapping adds
   and the clears. *)
InitColor ==
  /\ engine \in Engines
  /\ \E n \in 0..MaxColored :
       LET g == GraphAfter([i \in 1..n |-> E1], MaxLinks(engine))
       IN /\ nodesRef = g.nodes
          /\ linksRef = g.links
          /\ simNodes = g.nodes
          /\ simLinks = g.links
          /\ nodes = g.nodes
          /\ links = g.links
          /\ body = [i \in 1..n |-> newBody(<<0, 0, 0>>)]
          /\ now = n + 1
          /\ pipelineRef = (n > 0)
  /\ inputText = EmptyText
  /\ alpha = 0
  /\ simRunning = FALSE
  /\ loading = FALSE
  /\ error = ""
  /\ initializing = FALSE
  /\ pending = EmptyBag
  /\ InitInteraction
  /\ lastOp = "init"

NextColor ==
  \/ \E t \in TopoTexts : setInputText(t)
  \/ addWordStart(MaxColored + 1)
  \/ \E r \in Requests(TopoTexts) : importResolved(r)
  \/ \E r \in Requests(TopoTexts) : pipelineResolved(r)
  \/ \E r \in Requests(TopoTexts), p \in SpecPositions :
        addWordResolved(r, E1, p)
  \/ clearAll
  \/ clearUniverse

SpecColor == InitColor /\ [][NextColor]_vars

(* Planar wheel zoom under pan: the two-node graph at one of the scales
   AnchorScales with the view centred, pan gestures, and bursts of wheel
   events, followed from the scales AnchorScales. *)
InitAnchor ==
  /\ engine = "planar"
  /\ LET g == GraphAfter(<<E1, E1>>, MaxLinks(engine))
     IN /\ nodesRef = g.nodes
        /\ linksRef = g.links
        /\ simNodes = g.nodes
        /\ simLinks = g.links
        /\ nodes = g.nodes
        /\ links = g.links
  /\ body = [i \in 1..2 |-> newBody(<<0, 0, 0>>)]
  /\ now = 3
  /\ pipelineRef = TRUE
  /\ inputText = EmptyText
  /\ alpha = 0
  /\ simRunning = FALSE
  /\ loading = FALSE
  /\ error = ""
  /\ initializing = FALSE
  /\ pending = EmptyBag
  /\ \E s \in AnchorScales :
        viewState = [InitialViewState EXCEPT !.scale = s]
  /\ is3DMode = FALSE
  /\ isDraggingCanvas = FALSE
  /\ camera = InitialCamera
  /\ autoRotate = TRUE
  /\ isDragging = FALSE
  /\ dragStart = [x |-> 0, y |-> 0]
  /\ alphaTarget = 0
  /\ lastOp = "init"

NextAnchor ==
  \/ \E p \in PointerPositions : handleMouseDown(p)
  \/ \E p \in PointerPositions : handleMouseMove(p)
  \/ onMouseUp
  \/ \E ds \in WheelBursts, p \in WheelPositions :
        viewState.scale \in AnchorScales /\ handleWheelBurst(ds, p)

SpecAnchor == InitAnchor /\ [][NextAnchor]_vars

(* The volumetric projection: one node at one of FarPositions, the camera
   orbited by drags and auto-rotation and zoomed by the wheel. *)
InitProject ==
  /\ engine = "volumetric"
  /\ \E p \in FarPositions :
       LET g == GraphAfter(<<E1>>, MaxLinks(engine))
       IN /\ nodesRef = g.nodes
          /\ linksRef = g.links
          /\ simNodes = g.nodes
          /\ simLinks = g.links
          /\ links = g.links
          /\ body = <<newBody(p)>>
  /\ now = 2
  /\ nodes = << >>
  /\ pipelineRef = TRUE
  /\ inputText = EmptyText
  /\ alpha = 0
  /\ simRunning = FALSE
  /\ loading = FALSE
  /\ error = ""
  /\ initializing = FALSE
  /\ pending = EmptyBag
  /\ InitInteraction
  /\ lastOp = "init"

NextProject ==
  \/ \E p \in OrbitPositions : handleMouseDown(p)
  \/ \E p \in OrbitPositions : handleMouseMove(p)
  \/ onMouseUp
  \/ \E d \in WheelDeltas, p \in WheelPositions : handleWheel(d, p)
  \/ toggleAutoRotate
  \/ animate(MaxAutoYaw)

SpecProject == InitProject /\ [][NextProject]_vars

(* The planar simulation cooling down: adds on a fresh page, node drags
   and releases, with the d3 timer. The timer fires as long as the
   simulation runs, and a held node is released in the end, on the node or
   elsewhere in the container. *)
InitSettle == Init /\ engine = "planar"

release ==
  \/ onMouseUp
  \/ onMouseLeave
  \/ \E i \in 1..MaxNodes : onNodeDragEnd(i)

NextSettle ==
  \/ \E t \in Texts : setInputText(t)
  \/ addWordStart(MaxNodes)
  \/ \E r \in BagToSet(pending) : importResolved(r)
  \/ \E r \in BagToSet(pending) : pipelineResolved(r)
  \/ \E r \in BagToSet(pending), e \in SpecEmbeddings, p \in SpecPositions :
       addWordResolved(r, e, p)
  \/ \E i \in 1..MaxNodes : onNodeDragStart(i)
  \/ release
  \/ timerStep

SpecSettle ==
  /\ InitSettle
  /\ [][NextSettle]_vars
  /\ WF_vars(timerStep)
  /\ WF_vars((\E i \in 1..Len(body) : body[i].fx # << >>) /\ release)

TypeOK ==
  /\ engine \in Engines
  /\ inputText \in Texts \cup TopoTexts \cup ViewTexts \cup {EmptyText}
  /\ Len(nodesRef) <= Max(MaxExisting, MaxColored) + 1
  /\ BagCardinality(pending) <= MaxPending
  /\ alpha \in 0..AlphaOne
  /\ now \in 0..(Max(MaxExisting, MaxColored) + 1)

----------------------------------------------------------------------------
(* Vocabulary of the properties *)

ResolvedOps == {"addResolved", "addResolvedAfterClear"}

AddWordEntryOps == {"addDuplicate", "addStart"}

AddWordPendingOps == {"addStart", "getEmbedding", "addRejected"}

ClearOps == {"clearAll", "clearUniverse"}

ReleaseOps == {"mouseUp", "nodeDragEnd"}

NoNodePinned ==
  \A i \in 1..Len(body) : body[i].fx = << >> /\ body[i].fy = << >>

CollectionsEmpty ==
  /\ nodesRef = << >>
  /\ linksRef = << >>
  /\ nodes = << >>
  /\ links = << >>

LastNode == nodesRef[Len(nodesRef)]

LinksOfLastNode == SelectSeq(linksRef, LAMBDA l : l.target = LastNode.id)

IdsDistinct ==
  \A i, j \in 1..Len(nodesRef) : i # j => nodesRef[i].id # nodesRef[j].id

(* forceLink.links(...) resolves an endpoint id through a Map built from the
   node array, so an id shared by several nodes denotes the last of them *)
NodeIndexById(ns, id) ==
  IF \E i \in 1..Len(ns) : ns[i].id = id
    THEN CHOOSE i \in 1..Len(ns) :
           ns[i].id = id /\ \A j \in (i + 1)..Len(ns) : ns[j].id # id
    ELSE 0

Adjacent(ns, ls, i, j) ==
  \E k \in 1..Len(ls) :
     {NodeIndexById(ns, ls[k].source), NodeIndexById(ns, ls[k].target)}
       = {i, j}

RECURSIVE ReachableFrom(_, _, _)
ReachableFrom(ns, ls, seen) ==
  LET more == {j \in 1..Len(ns) : \E i \in seen : Adjacent(ns, ls, i, j)}
  IN IF more \subseteq seen THEN seen
     ELSE ReachableFrom(ns, ls, seen \cup more)

Range(seq) == {seq[i] : i \in 1..Len(seq)}

IsConnected(ns, ls) ==
  Len(ns) >= 1 => ReachableFrom(ns, ls, {1}) = 1..Len(ns)

----------------------------------------------------------------------------
(* C1: when clearAll ran while an addWord call was waiting on the provider,
   the later resolution of that call inserts no node and no edge. *)
C1_StaleResultDiscarded ==
  [][lastOp' = "addResolvedAfterClear"
       => /\ nodesRef' = nodesRef
          /\ linksRef' = linksRef]_vars

(* C2: no two nodes have texts that are equal ignoring case. *)
C2_TextsUniqueIgnoringCase ==
  \A i, j \in 1..Len(nodesRef) :
     i # j => toLowerCase(nodesRef[i].text) # toLowerCase(nodesRef[j].text)

(* C3: addWord with a text that equals, ignoring case, the text of a node
   in the graph leaves the node and edge collections, the simulation's sets
   and alpha unchanged, issues no embedding request and sets no error. *)
C3_DuplicateIsNoOp ==
  [][(lastOp' \in AddWordEntryOps /\ hasText(nodesRef, inputText))
       => /\ UNCHANGED <<nodesRef, linksRef, simNodes, simLinks, alpha>>
          /\ pending' = pending
          /\ error' = error
          /\ loading' = loading]_vars

C3_Witness ==
  /\ lastOp = "addDuplicate"
  /\ Len(nodesRef) >= 1
  /\ alpha < AlphaOne
  /\ inputText = EmptyText

(* C4: no step of an addWord call whose provider rejects changes the node
   collection, the edge collection or the simulation's node and link sets,
   and the rejection sets a non-empty error and loading to false. *)
C4_RejectLeavesGraph ==
  [][lastOp' \in AddWordPendingOps
       => /\ UNCHANGED <<nodesRef, linksRef, simNodes, simLinks>>
          /\ lastOp' = "addRejected"
               => /\ error' = ErrorMessage
                  /\ error' # ""
                  /\ loading' = FALSE]_vars

C4_Witness ==
  /\ lastOp = "addRejected"
  /\ error # ""
  /\ ~loading
  /\ Len(nodesRef) >= 1
  /\ Len(linksRef) >= 1

(* C5: a successful addWord adds at most M edges, M = 8 planar and M = 6
   volumetric, however many existing nodes are above the threshold. *)
C5_AtMostMaxLinks ==
  [][lastOp' \in ResolvedOps
       => Len(linksRef') - Len(linksRef) <= MaxLinks(engine)]_vars

C5_Witness ==
  /\ lastOp \in ResolvedOps
  /\ IdsDistinct
  /\ Len(nodesRef) > MaxLinks(engine) + 1
  /\ \A i \in 1..(Len(nodesRef) - 1) :
        cosineSimilarity(LastNode.embedding, nodesRef[i].embedding)
          > Threshold
  /\ Len(LinksOfLastNode) = MaxLinks(engine)

(* C6: with at least K = 3 existing nodes a successful addWord adds at
   least 3 edges, also when no similarity is above the threshold. *)
C6_AtLeastTopK ==
  [][(lastOp' \in ResolvedOps /\ Len(nodesRef) >= TopK)
       => Len(linksRef') - Len(linksRef) >= TopK]_vars

C6_Witness ==
  /\ lastOp \in ResolvedOps
  /\ IdsDistinct
  /\ Len(nodesRef) > TopK + 1
  /\ \A i \in 1..(Len(nodesRef) - 1) :
        cosineSimilarity(LastNode.embedding, nodesRef[i].embedding)
          <= Threshold
  /\ \E i \in 1..(Len(nodesRef) - 1) :
        cosineSimilarity(LastNode.embedding, nodesRef[i].embedding) < 0
  /\ Len(LinksOfLastNode) = TopK

(* C7: whenever the graph holds at least one node it is connected. *)
C7_GraphConnected == IsConnected(nodesRef, linksRef)

(* C8: with fewer than K = 3 existing nodes a successful addWord adds one
   edge per existing node, whatever the similarity, from that node to the
   new one and weighted with their similarity. *)
C8_ConnectsToAllWhenFew ==
  [][(lastOp' \in ResolvedOps /\ Len(nodesRef) < TopK)
       => LET w == nodesRef'[Len(nodesRef')]
              added == SubSeq(linksRef', Len(linksRef) + 1, Len(linksRef'))
          IN /\ Len(added) = Len(nodesRef)
             /\ \A i \in 1..Len(nodesRef) :
                   \E k \in 1..Len(added) :
                      /\ added[k].source = nodesRef[i].id
                      /\ added[k].target = w.id
                      /\ added[k].similarity =
                           cosineSimilarity(w.embedding,
                                            nodesRef[i].embedding)]_vars

C8_Witness ==
  /\ lastOp \in ResolvedOps
  /\ IdsDistinct
  /\ Len(nodesRef) = 3
  /\ Len(linksRef) = 3
  /\ linksRef[1].similarity > Threshold
  /\ linksRef[2].similarity <= Threshold
  /\ linksRef[3].similarity <= Threshold

(* C9: every edge joins two different nodes that are both in the node
   collection. *)
C9_EdgesWellFormed ==
  \A k \in 1..Len(linksRef) :
     /\ linksRef[k].source # linksRef[k].target
     /\ \E i \in 1..Len(nodesRef) : nodesRef[i].id = linksRef[k].source
     /\ \E i \in 1..Len(nodesRef) : nodesRef[i].id = linksRef[k].target

(* C10: no two nodes of the collection share an id. *)
C10_IdsUnique == IdsDistinct

(* C11: a successful addWord keeps every existing edge as it was, and every
   edge it adds has the id of the new node as target and the id of a node
   that was already in the collection as source; no other step of addWord
   changes the edge collection. *)
C11_EdgesOnlyToNewNode ==
  [][/\ Len(linksRef') >= Len(linksRef)
     /\ SubSeq(linksRef', 1, Len(linksRef)) = linksRef
     /\ lastOp' \notin ResolvedOps => linksRef' = linksRef
     /\ lastOp' \in ResolvedOps =>
          \A k \in (Len(linksRef) + 1)..Len(linksRef') :
             /\ linksRef'[k].target = nodesRef'[Len(nodesRef')].id
             /\ \E i \in 1..Len(nodesRef) :
                   linksRef'[k].source = nodesRef[i].id]_vars

C11_Witness ==
  /\ lastOp \in ResolvedOps
  /\ IdsDistinct
  /\ Len(LinksOfLastNode) >= TopK
  /\ Len(linksRef) > Len(LinksOfLastNode)
  /\ \E k \in 1..Len(linksRef) : linksRef[k].target # LastNode.id

(* C12: the clear empties the node and edge collections and what is drawn,
   and a frame or any other handler that is not a step of addWord leaves
   them empty after it. *)
C12_ClearedStaysEmpty ==
  [][/\ lastOp' \in ClearOps => CollectionsEmpty'
     /\ (lastOp \in ClearOps /\ lastOp' = "other") => CollectionsEmpty']_vars

(* C13: the clear resets the camera: in the planar engine the view state
   holds the values of resetView, in the volumetric engine the pitch and
   the zoom hold their initial values. *)
C13_ClearResetsCamera ==
  [][lastOp' \in ClearOps
       => /\ engine = "planar" => viewState' = ResetViewState
          /\ engine = "volumetric"
               => /\ camera'.angleX = InitialCamera.angleX
                  /\ camera'.zoom = InitialCamera.zoom]_vars

(* C14: the node set and the link set of the simulation are the node and
   edge collections, after every handler and every frame. *)
C14_SimulationInSync ==
  /\ simNodes = nodesRef
  /\ simLinks = linksRef

(* C15: the zoom is within its bounds in every state: the planar scale in
   [0.1, 4], the volumetric zoom in [0.5, 3]. *)
C15_ZoomWithinBounds ==
  /\ engine = "planar"
       => viewState.scale \in PlanarScaleMin..PlanarScaleMax
  /\ engine = "volumetric"
       => camera.zoom \in VolumetricZoomMin..VolumetricZoomMax

(* C16: the pitch camera.angleX is within [-pi/2, pi/2] in every state,
   whatever orbit drags, auto-rotation frames and wheel events came before;
   the yaw is not held to that range. *)
C16_PitchWithinQuarterTurn == camera.angleX \in -HalfPi..HalfPi

C16_Witness ==
  /\ engine = "volumetric"
  /\ camera.angleX = -HalfPi
  /\ camera.angleY < -HalfPi
  /\ camera.zoom # InitialCamera.zoom

(* C17: in every state of the volumetric engine sortedNodes is in
   non-decreasing order of the cached depth and holds exactly the drawn
   nodes, each as often as the render state holds it. *)
C17_SortedNodesAscending ==
  /\ \A k \in 1..(Len(sortedNodes) - 1) :
        sortedNodes[k].depth <= sortedNodes[k + 1].depth
  /\ Len(sortedNodes) = Len(drawnNodes)
  /\ \A x \in Range(drawnNodes) \cup Range(sortedNodes) :
        Cardinality({k \in 1..Len(sortedNodes) : sortedNodes[k] = x})
          = Cardinality({i \in 1..Len(drawnNodes) : drawnNodes[i] = x})

C17_Witness ==
  /\ Len(nodes) = 3
  /\ sortedNodes # drawnNodes
  /\ \A i, j \in 1..3 : i # j => body[i].depth # body[j].depth
  /\ camera.angleX # InitialCamera.angleX
  /\ camera.angleY # 0

(* C18: in every state of the volumetric engine the edges of visibleLinks,
   which are drawn in that order, are in non-decreasing order of depth, the
   depth of an edge being the mean, the least or the greatest of the depths
   cached on its endpoints. *)
C18_LinksDrawnByDepth ==
  LET ends(l) == {body[l.source].depth, body[l.target].depth}
      mean2(l) == body[l.source].depth + body[l.target].depth
      least(l) == CHOOSE d \in ends(l) : \A e \in ends(l) : d <= e
      greatest(l) == CHOOSE d \in ends(l) : \A e \in ends(l) : d >= e
      K == 1..(Len(visibleLinks) - 1)
  IN \/ \A k \in K : mean2(visibleLinks[k]) <= mean2(visibleLinks[k + 1])
     \/ \A k \in K : least(visibleLinks[k]) <= least(visibleLinks[k + 1])
     \/ \A k \in K :
           greatest(visibleLinks[k]) <= greatest(visibleLinks[k + 1])

(* C19: the "Toggle 3D Mode" button leaves the view at its default: scale 1
   and the pan centred. *)
C19_ModeSwitchResetsCamera ==
  [][lastOp' = "toggle3DMode" => viewState' = InitialViewState]_vars

(* C20: when the pointer button is released over the container, on a node
   or on the empty canvas, no node is pinned (fx and fy are null) and
   alphaTarget is 0. *)
C20_ReleaseClearsPin ==
  [][lastOp' \in ReleaseOps => NoNodePinned' /\ alphaTarget' = 0]_vars

(* C21: a node drag and a canvas pan are never active together: whenever
   some node is pinned by a drag (fx, fy set) isDraggingCanvas is false, and
   a pointer-down on a node never starts canvas panning. *)
C21_DragAndPanExclusive ==
  [][/\ ~NoNodePinned' => ~isDraggingCanvas'
     /\ lastOp' = "nodeDragStart" => isDraggingCanvas' = isDraggingCanvas]_vars

PerturbOps == ResolvedOps \cup {"nodeDragStart"}

(* C22: every successful add sets alpha to 1; alpha rises only by an add or
   under a node drag; and once adds and node drags have ceased, alpha
   decays until the simulation is settled (alpha below alphaMin) and stays
   settled. *)
C22_ReheatAndSettle ==
  /\ [][lastOp' \in ResolvedOps => alpha' = AlphaOne]_vars
  /\ [][alpha' > alpha => lastOp' \in ResolvedOps \/ ~NoNodePinned]_vars
  /\ <>[](lastOp \notin PerturbOps) => <>[](alpha = 0)

(* C23: the edges a successful addWord adds are a function of the new
   embedding and the existing nodes in their order, whatever the clock, the
   initial position and the request; they are listed by descending
   similarity with equal similarities in insertion order, and every node
   that is connected ranks before every node that is not (so of two nodes
   with equal similarity the earlier-inserted one is the one connected). *)
C23_TiesByInsertionOrder ==
  [][lastOp' \in ResolvedOps
       => \A w \in {nodesRef'[Len(nodesRef')]} :
          \A added \in {SubSeq(linksRef', Len(linksRef) + 1, Len(linksRef'))} :
          \A conns \in {connectionsToMake(nodesRef, w.embedding,
                                          MaxLinks(engine))} :
          \A idx \in {[k \in 1..Len(added) |->
                         NodeIndexById(nodesRef, added[k].source)]} :
          \A sim \in {[i \in 1..Len(nodesRef) |->
                         cosineSimilarity(w.embedding,
                                          nodesRef[i].embedding)]} :
             LET before(i, j) ==
                   sim[i] > sim[j] \/ (sim[i] = sim[j] /\ i < j)
                 unconnected == (1..Len(nodesRef)) \ Range(idx)
             IN /\ Len(added) = Len(conns)
                /\ \A k \in 1..Len(added) :
                      /\ added[k].source = conns[k].id
                      /\ added[k].similarity = conns[k].similarity
                      /\ added[k].similarity = sim[idx[k]]
                /\ \A k \in 1..(Len(added) - 1) :
                      before(idx[k], idx[k + 1])
                /\ \A k \in 1..Len(added), j \in unconnected :
                      before(idx[k], j)]_vars

(* a tie above the threshold straddles rank M: the earlier-inserted of two
   equally similar nodes is connected and the later one is not *)
C23_Witness ==
  /\ lastOp \in ResolvedOps
  /\ IdsDistinct
  /\ Len(LinksOfLastNode) = MaxLinks(engine)
  /\ \E i, j \in 1..(Len(nodesRef) - 1) :
        /\ i < j
        /\ cosineSimilarity(LastNode.embedding, nodesRef[i].embedding)
             = cosineSimilarity(LastNode.embedding, nodesRef[j].embedding)
        /\ cosineSimilarity(LastNode.embedding, nodesRef[i].embedding)
             > Threshold
        /\ \E k \in 1..Len(LinksOfLastNode) :
              LinksOfLastNode[k].source = nodesRef[i].id
        /\ \A k \in 1..Len(LinksOfLastNode) :
              LinksOfLastNode[k].source # nodesRef[j].id

(* C24: every node of the collection has the palette index of its place in
   creation order modulo the palette size, the count starting again after
   clearAll, whatever the interleaving of overlapping adds; and as long as
   the collection is not cleared no node changes its color. *)
C24_ColorByCreationOrder ==
  [][/\ \A i \in 1..Len(nodesRef') :
           nodesRef'[i].color = (i - 1) % NumColors
     /\ Len(nodesRef') >= Len(nodesRef) =>
          \A i \in 1..Len(nodesRef) :
             nodesRef'[i].color = nodesRef[i].color]_vars

(* the palette has wrapped around: the thirteenth node has the first color *)
C24_Witness ==
  /\ lastOp \in ResolvedOps
  /\ Len(nodesRef) = NumColors + 1
  /\ LastNode.color = 0
  /\ nodesRef[NumColors].color = NumColors - 1

(* how far the simulation-space point shown at the screen coordinate c has
   moved on the screen when the pan goes from x to x2 and the scale from s
   to s2, in pixels times s *)
Drift(c, x, s, x2, s2) ==
  LET d == (c - x2) * s - (c - x) * s2
  IN IF d < 0 THEN -d ELSE d

(* C25: a planar wheel zoom, also when several wheel events are handled
   before the next render, keeps the simulation-space point at the container
   centre where it is, to within the pixel rounding of the updaters, for any
   pan and any scale within the bounds. *)
C25_WheelKeepsCentre ==
  [][lastOp' = "wheel"
       => /\ Drift(ContainerWidth \div 2, viewState.x, viewState.scale,
                   viewState'.x, viewState'.scale)
               < (MaxBurst + 1) * viewState.scale
          /\ Drift(ContainerHeight \div 2, viewState.y, viewState.scale,
                   viewState'.y, viewState'.scale)
               < (MaxBurst + 1) * viewState.scale]_vars

(* a burst of wheel events has changed the scale of a panned view *)
C25_Witness ==
  /\ lastOp = "wheel"
  /\ viewState.scale = times(ScaleOne, 11)
  /\ viewState.x - ContainerWidth \div 2 >= MaxPan
  /\ viewState.y # ContainerHeight \div 2

(* C26: in every frame the perspective divisor of every node is positive,
   so that the scale of the node is finite and positive, for every zoom
   within the bounds, every camera angle and every node position. *)
C26_ScalePositiveAndFinite ==
  \A i \in 1..Len(body) :
     /\ nodeScale(body[i], camera) > 0
     /\ nodeScale(body[i], camera) < Infinity

(* the two-step rule: the candidates of the sorted list that are among the
   first K or above the threshold, in sorted order, cut to the first m *)
TwoStepSelection(sorted, m) ==
  LET ranked == [i \in 1..Len(sorted) |-> [c |-> sorted[i], rank |-> i - 1]]
      selected == SelectSeq(ranked, LAMBDA e : \/ e.rank < TopK
                                               \/ e.c.similarity > Threshold)
  IN [k \in 1..Min(m, Len(selected)) |-> selected[k].c]

(* C27: on the candidate list sorted by descending similarity, the edges a
   successful addWord adds are exactly the candidates that the two-step rule
   selects (rank below K or similarity above the threshold, then the first M
   of those), and they are the first entries of the sorted list. *)
C27_FilterIsTruncatedSelection ==
  [][lastOp' \in ResolvedOps
       => \A sorted \in {SortCandidates(
                           Candidates(nodesRef,
                                      nodesRef'[Len(nodesRef')].embedding))} :
          \A twoStep \in {TwoStepSelection(sorted, MaxLinks(engine))} :
          \A added \in {SubSeq(linksRef', Len(linksRef) + 1, Len(linksRef'))} :
             /\ Len(added) = Len(twoStep)
             /\ Len(added) <= Len(sorted)
             /\ \A k \in 1..Len(added) :
                   /\ added[k].source = twoStep[k].id
                   /\ added[k].similarity = twoStep[k].similarity
                   /\ added[k].source = sorted[k].id
                   /\ added[k].similarity = sorted[k].similarity]_vars

(* the truncation has cut candidates above the threshold, and a candidate
   below it was in the list as well *)
C27_Witness ==
  /\ lastOp \in ResolvedOps
  /\ Len(LinksOfLastNode) = MaxLinks(engine)
  /\ Cardinality({i \in 1..(Len(nodesRef) - 1) :
        cosineSimilarity(LastNode.embedding, nodesRef[i].embedding)
          > Threshold}) > MaxLinks(engine)
  /\ \E i \in 1..(Len(nodesRef) - 1) :
        cosineSimilarity(LastNode.embedding, nodesRef[i].embedding)
          <= Threshold

(* the number of edges of the collection that have the node with this id
   as an endpoint *)
Degree(id) ==
  Cardinality({k \in 1..Len(linksRef) :
                 linksRef[k].source = id \/ linksRef[k].target = id})

(* C28: no node of the collection has more than M incident edges, the edges
   added with later nodes included. *)
C28_DegreeAtMostMaxLinks ==
  \A i \in 1..Len(nodesRef) : Degree(nodesRef[i].id) <= MaxLinks(engine)

(* the calls of pipeline(...) that have not resolved yet *)
PipelineCallsInFlight ==
  BagCardinality([r \in {q \in BagToSet(pending) : q.pc = "pipeline"}
                    |-> CopiesIn(r, pending)])

(* C29: pipeline(...) is invoked at most once in a session: there is never
   more than one call of it in flight, and none once the pipeline is
   cached. *)
C29_PipelineCreatedOnce ==
  PipelineCallsInFlight + (IF pipelineRef THEN 1 ELSE 0) <= 1

(* C30: loading is true exactly while some addWord call is waiting for its
   embedding. *)
C30_LoadingTracksPending == loading = (pending # EmptyBag)

====
